---- MODULE Spec2Model ----
(***************************************************************************)
(* Model of the permission resolver RoleBasedAccessControl                 *)
(* (src/src/core/rbac.ts) of @connectaryal/rbac.                           *)
(*                                                                         *)
(* The resolver owns three fields: the direct permissions (a JavaScript    *)
(* Set), the assigned roles (a JavaScript Set) and the role definitions (a *)
(* plain JavaScript object mapping a role name to an array of              *)
(* permissions).  A JavaScript Set iterates in insertion order, so a Set   *)
(* is modelled as a sequence without duplicates.  A plain object inherits  *)
(* from Object.prototype, so reading a key the object does not own yields  *)
(* undefined only when Object.prototype has no member of that name.        *)
(*                                                                         *)
(* The configuration documented in src/README.md also carries              *)
(* restrictions, sector and sectorRestrictions.  The class under           *)
(* src/src/core/rbac.ts has no field for them: they are kept here as the   *)
(* policy the configuration states, which the resolver never reads.        *)
(***************************************************************************)
EXTENDS Naturals, Sequences, FiniteSets, TLC

VARIABLES
  permissions,         \* this.permissions: Set, in insertion order
  roles,               \* this.roles: Set, in insertion order
  roleDefinitions,     \* this.roleDefinitions: own properties, role -> array
  restrictions,        \* documented config.restrictions (deny list)
  sector,              \* documented config.sector (active sector)
  sectorRestrictions,  \* documented config.sectorRestrictions
  heap,                \* the objects behind references: address -> object
  rbac,                \* a resolver: the references its three fields hold
  peer,                \* a second resolver, constructed from the same config
  configObject,        \* the caller's configuration object: its references
  held                 \* the reference the caller keeps besides the config

vars ==
  <<permissions, roles, roleDefinitions, restrictions, sector, sectorRestrictions,
    heap, rbac, peer, configObject, held>>

---------------------------------------------------------------------------
(* Bounds and the identifiers the inputs are drawn from. *)

\* Longest list passed to setPermissions, addRoles, can, hasRoles, ...
MaxLen == 2

\* Most own keys of a mapping passed as roleDefinitions.
MaxDefs == 1

Perms == {"read", "delete"}

\* "constructor" is a role name like any other string; it is also the name
\* of a data property of Object.prototype (as are "toString", "valueOf", ...).
RoleNames == {"admin", "editor", "constructor"}

ObjectPrototypeKeys == {"constructor"}

Sectors == {"finance", "it"}

NoSector == "(none)"

Range(s) == {s[i] : i \in 1..Len(s)}

SeqsUpTo(S, n) == UNION {[1..k -> S] : k \in 0..n}

PermLists == SeqsUpTo(Perms, MaxLen)

RoleLists == SeqsUpTo(RoleNames, MaxLen)

\* The arrays given as a role's permissions.
DefinitionLists == {<<>>, <<"read">>, <<"delete">>, <<"read", "delete">>}

EmptyObject == [r \in {} |-> <<>>]

\* Mappings role -> array with at most MaxDefs own keys.
DefinitionObjects ==
  UNION {[D -> DefinitionLists] :
           D \in {X \in SUBSET RoleNames : Cardinality(X) <= MaxDefs}}

---------------------------------------------------------------------------
(* JavaScript values the code relies on. *)

\* Most objects alive at once.
MaxObjects == 16

Addr == 1..MaxObjects

\* The reference that refers to nothing (null, undefined, an absent field).
Null == 0

NoProps == [k \in {} |-> Null]

\* An object is a Set or an Array (its elements in order) or a plain object
\* (its own properties, each a reference); an address not in use is free.
FreeCell == [kind |-> "free", items |-> <<>>, props |-> NoProps]

SetCell(items) == [kind |-> "Set", items |-> items, props |-> NoProps]

ArrayCell(items) == [kind |-> "Array", items |-> items, props |-> NoProps]

ObjectCell(props) == [kind |-> "Object", items |-> <<>>, props |-> props]

EmptyHeap == [a \in Addr |-> FreeCell]

FreeAddrs(h) == {a \in Addr : h[a].kind = "free"}

\* The address a new object gets: the lowest one not in use.
Fresh(h) == CHOOSE a \in FreeAddrs(h) : \A b \in FreeAddrs(h) : a <= b

\* new Set(...), [...], {...}: a new object, and the reference to it.
New(h, cell) == [heap |-> [h EXCEPT ![Fresh(h)] = cell], ref |-> Fresh(h)]

\* Set.prototype.add: appends the element unless it is already present.
SetAdd(s, x) == IF x \in Range(s) THEN s ELSE Append(s, x)

\* Set.prototype.delete: removes the element, keeping the order of the rest.
SetDelete(s, x) == SelectSeq(s, LAMBDA y : y # x)

\* new Set(iterable): the elements in first-occurrence order.
RECURSIVE AddAll(_, _, _)
AddAll(s, list, i) ==
  IF i > Len(list) THEN s ELSE AddAll(SetAdd(s, list[i]), list, i + 1)

RECURSIVE DeleteAll(_, _, _)
DeleteAll(s, list, i) ==
  IF i > Len(list) THEN s ELSE DeleteAll(SetDelete(s, list[i]), list, i + 1)

NewSet(list) == AddAll(<<>>, list, 1)

\* An optional configuration field.
Some(v) == [present |-> TRUE, value |-> v]

Absent == [present |-> FALSE, value |-> <<>>]

\* field ?? fallback
OrElse(opt, fallback) == IF opt.present THEN opt.value ELSE fallback

\* obj[key] on a plain object: the own property, else what Object.prototype
\* holds under that name (a function, not an array), else undefined.
PropertyGet(obj, key) ==
  IF key \in DOMAIN obj THEN [kind |-> "array", items |-> obj[key]]
  ELSE IF key \in ObjectPrototypeKeys THEN [kind |-> "function", items |-> <<>>]
  ELSE [kind |-> "undefined", items |-> <<>>]

\* this.roleDefinitions[role] ?? []
RolePermsOf(defs, role) ==
  LET v == PropertyGet(defs, role)
  IN IF v.kind = "undefined" THEN [kind |-> "array", items |-> <<>>] ELSE v

\* obj[key] = value
PropertySet(obj, key, value) ==
  [k \in DOMAIN obj \cup {key} |-> IF k = key THEN value ELSE obj[k]]

\* delete obj[key]
PropertyDelete(obj, key) == [k \in DOMAIN obj \ {key} |-> obj[k]]

\* Results of a boolean query: it returns true or false, or it throws.
True == "true"

False == "false"

TypeError == "TypeError"

\* An argument that is either one identifier or an array of identifiers.
Single(x) == [isArray |-> FALSE, one |-> x, many |-> <<>>]

Many(list) == [isArray |-> TRUE, one |-> "", many |-> list]

\* What a method declared void returns.
Undefined == <<>>

---------------------------------------------------------------------------
(* Queries (src/src/core/rbac.ts).  Each takes the resolver it is called   *)
(* on: the record of its three fields.                                     *)

\* getPermissions(): new Set(this.permissions)
getPermissions(this) == NewSet(this.permissions)

\* getRoles(): new Set(this.roles)
getRoles(this) == NewSet(this.roles)

\* hasRole(role): this.roles.has(role)
hasRole(this, role) == role \in Range(this.roles)

\* getRoleDefinitions(): { ...this.roleDefinitions }, the own properties.
getRoleDefinitions(this) ==
  [k \in DOMAIN this.roleDefinitions |-> this.roleDefinitions[k]]

\* getRolePermissions(role): this.roleDefinitions[role] ?? []
getRolePermissions(this, role) == RolePermsOf(this.roleDefinitions, role)

\* The loop of getAllPermissions over this.roles, from the i-th role on:
\* rolePerms.forEach throws when rolePerms is not an array.
RECURSIVE AllPermsFrom(_, _, _)
AllPermsFrom(this, allPerms, i) ==
  IF i > Len(this.roles) THEN [threw |-> FALSE, value |-> allPerms]
  ELSE LET rolePerms == RolePermsOf(this.roleDefinitions, this.roles[i])
       IN IF rolePerms.kind # "array" THEN [threw |-> TRUE, value |-> <<>>]
          ELSE AllPermsFrom(this, AddAll(allPerms, rolePerms.items, 1), i + 1)

\* getAllPermissions()
getAllPermissions(this) == AllPermsFrom(this, NewSet(this.permissions), 1)

\* The loop of hasPermission over this.roles, from the i-th role on:
\* rolePerms.includes throws when rolePerms is not an array.
RECURSIVE HasPermissionFrom(_, _, _)
HasPermissionFrom(this, perm, i) ==
  IF i > Len(this.roles) THEN False
  ELSE LET rolePerms == RolePermsOf(this.roleDefinitions, this.roles[i])
       IN IF rolePerms.kind # "array" THEN TypeError
          ELSE IF perm \in Range(rolePerms.items) THEN True
          ELSE HasPermissionFrom(this, perm, i + 1)

\* Variant of hasPermission that consults every defined role, assigned or not.
hasPermission_AnyDefinedRole(this, perm) ==
  IF perm \in Range(this.permissions) THEN True
  ELSE IF \E r \in DOMAIN this.roleDefinitions : perm \in Range(this.roleDefinitions[r])
  THEN True
  ELSE False

\* hasPermission(perm)
hasPermission(this, perm) ==
  IF perm \in Range(this.permissions) THEN True ELSE HasPermissionFrom(this, perm, 1)

\* perms.every((perm) => this.hasPermission(perm)), from the i-th element on.
RECURSIVE EveryHasPermission(_, _, _)
EveryHasPermission(this, perms, i) ==
  IF i > Len(perms) THEN True
  ELSE LET r == hasPermission(this, perms[i])
       IN IF r = True THEN EveryHasPermission(this, perms, i + 1) ELSE r

\* perms.some((perm) => this.hasPermission(perm)), from the i-th element on.
RECURSIVE SomeHasPermission(_, _, _)
SomeHasPermission(this, perms, i) ==
  IF i > Len(perms) THEN False
  ELSE LET r == hasPermission(this, perms[i])
       IN IF r = False THEN SomeHasPermission(this, perms, i + 1) ELSE r

\* Variant of can that refuses an empty list in either mode.
can_EmptyRefused(this, perms, every) ==
  IF ~perms.isArray THEN hasPermission(this, perms.one)
  ELSE IF perms.many = <<>> THEN False
  ELSE IF every THEN EveryHasPermission(this, perms.many, 1)
  ELSE SomeHasPermission(this, perms.many, 1)

\* can(perms, every)
can(this, perms, every) ==
  IF ~perms.isArray THEN hasPermission(this, perms.one)
  ELSE IF every THEN EveryHasPermission(this, perms.many, 1)
  ELSE SomeHasPermission(this, perms.many, 1)

\* can(perms): the parameter every defaults to true.
canDefault(this, perms) == can(this, perms, TRUE)

\* hasRoles(roles, every)
hasRoles(this, rs, every) ==
  IF ~rs.isArray THEN hasRole(this, rs.one)
  ELSE IF every THEN \A i \in 1..Len(rs.many) : hasRole(this, rs.many[i])
  ELSE \E i \in 1..Len(rs.many) : hasRole(this, rs.many[i])

\* Variant of hasRolesDefault whose default is the one of can.
hasRolesDefault_EveryTrue(this, rs) == hasRoles(this, rs, TRUE)

\* hasRoles(roles): the parameter every defaults to false.
hasRolesDefault(this, rs) == hasRoles(this, rs, FALSE)

---------------------------------------------------------------------------
(* Construction and mutations (src/src/core/rbac.ts).  A mutation yields   *)
(* the resolver it leaves and the value it returns.                        *)

\* Variant of Construct whose fallback for absent permissions grants "read".
Construct_ReadByDefault(config) ==
  [permissions |-> NewSet(OrElse(config.permissions, <<"read">>)),
   roles |-> NewSet(OrElse(config.roles, <<>>)),
   roleDefinitions |-> OrElse(config.roleDefinitions, EmptyObject)]

\* constructor(config)
Construct(config) ==
  [permissions |-> NewSet(OrElse(config.permissions, <<>>)),
   roles |-> NewSet(OrElse(config.roles, <<>>)),
   roleDefinitions |-> OrElse(config.roleDefinitions, EmptyObject)]

\* Variant of setPermissions that keeps the previous direct permissions.
setPermissions_Merge(this, list) ==
  [this |-> [this EXCEPT !.permissions = AddAll(this.permissions, list, 1)],
   returned |-> Undefined]

\* setPermissions(permissions): this.permissions = new Set(permissions)
setPermissions(this, list) ==
  [this |-> [this EXCEPT !.permissions = NewSet(list)], returned |-> Undefined]

\* Variant of addPermissions that stores the elements without looking for
\* the ones already present.
addPermissions_Append(this, perms) ==
  LET after == [this EXCEPT !.permissions = this.permissions \o perms]
  IN [this |-> after, returned |-> after.permissions]

\* addPermissions(perms): perms.forEach((p) => this.permissions.add(p));
\* return new Set(this.permissions)
addPermissions(this, perms) ==
  LET after == [this EXCEPT !.permissions = AddAll(this.permissions, perms, 1)]
  IN [this |-> after, returned |-> NewSet(after.permissions)]

\* Variant of removePermissions that returns the Set as it was before.
removePermissions_ReturnsBefore(this, perms) ==
  LET after == [this EXCEPT !.permissions = DeleteAll(this.permissions, perms, 1)]
  IN [this |-> after, returned |-> NewSet(this.permissions)]

\* removePermissions(perms): perms.forEach((p) => this.permissions.delete(p));
\* return new Set(this.permissions)
removePermissions(this, perms) ==
  LET after == [this EXCEPT !.permissions = DeleteAll(this.permissions, perms, 1)]
  IN [this |-> after, returned |-> NewSet(after.permissions)]

\* Variant of setRoles that also drops the definitions of the roles it leaves
\* unassigned.
setRoles_PrunesDefinitions(this, list) ==
  [this |-> [this EXCEPT
               !.roles = NewSet(list),
               !.roleDefinitions =
                 [k \in DOMAIN this.roleDefinitions \cap Range(list) |->
                    this.roleDefinitions[k]]],
   returned |-> Undefined]

\* setRoles(roles): this.roles = new Set(roles)
setRoles(this, list) ==
  [this |-> [this EXCEPT !.roles = NewSet(list)], returned |-> Undefined]

addRoles(this, list) ==
  LET after == [this EXCEPT !.roles = AddAll(this.roles, list, 1)]
  IN [this |-> after, returned |-> NewSet(after.roles)]

\* Variant of removeRoles with the body of setRoles.
removeRoles_Replaces(this, list) ==
  LET after == [this EXCEPT !.roles = NewSet(list)]
  IN [this |-> after, returned |-> NewSet(after.roles)]

\* removeRoles(roles): roles.forEach((role) => this.roles.delete(role));
\* return new Set(this.roles)
removeRoles(this, list) ==
  LET after == [this EXCEPT !.roles = DeleteAll(this.roles, list, 1)]
  IN [this |-> after, returned |-> NewSet(after.roles)]

\* Variant of setRoleDefinitions that assigns the roles it defines, as
\* defineRole does.
setRoleDefinitions_Assigns(this, definitions) ==
  [this |-> [this EXCEPT
               !.roles = AddAll(this.roles,
                                SelectSeq(<<"admin", "editor", "constructor">>,
                                          LAMBDA r : r \in DOMAIN definitions), 1),
               !.roleDefinitions = definitions],
   returned |-> Undefined]

\* setRoleDefinitions(definitions): this.roleDefinitions = definitions
setRoleDefinitions(this, definitions) ==
  [this |-> [this EXCEPT !.roleDefinitions = definitions], returned |-> Undefined]

\* Variant of AutoAssign that defines the role without assigning it.
AutoAssign_Never(this, role) == this

\* defineRole: if (!this.hasRole(role)) { this.addRoles([role]); }
AutoAssign(this, role) ==
  IF ~hasRole(this, role) THEN addRoles(this, <<role>>).this ELSE this

defineRole(this, role, perms) ==
  LET assigned == AutoAssign(this, role)
  IN [this |-> [assigned EXCEPT
                  !.roleDefinitions = PropertySet(assigned.roleDefinitions, role, perms)],
      returned |-> Undefined]

removeRoleDefinition(this, role) ==
  [this |-> [this EXCEPT !.roleDefinitions = PropertyDelete(this.roleDefinitions, role)],
   returned |-> Undefined]

---------------------------------------------------------------------------
(* The state machine: one resolver and the calls made on it. *)

\* The resolver: its fields as the methods see them.
This == [permissions |-> permissions, roles |-> roles, roleDefinitions |-> roleDefinitions]

\* A configuration that states no policy.
NoSectorRestrictions == [s \in {} |-> {}]

NoPolicy == [restrictions |-> {}, sectorRestrictions |-> NoSectorRestrictions]

\* A configuration with a global deny list and per-sector deny lists, in the
\* shape src/README.md documents: "delete" is denied everywhere, "read" and
\* "delete" are denied in finance, nothing more is denied in it.
ReadmePolicy ==
  [restrictions |-> {"delete"},
   sectorRestrictions |-> [s \in Sectors |-> IF s = "finance" THEN {"read", "delete"} ELSE {}]]

PolicyConfigs == {NoPolicy, ReadmePolicy}

\* The configurations a resolver is constructed from; each field is optional.
Configs ==
  [permissions : {Absent} \cup {Some(l) : l \in PermLists},
   roles : {Absent} \cup {Some(l) : l \in RoleLists},
   roleDefinitions : {Absent} \cup {Some(d) : d \in DefinitionObjects}]

Policy == <<restrictions, sector, sectorRestrictions>>

Memory == <<heap, rbac, peer, configObject, held>>

\* A resolver whose fields refer to nothing yet.
NoResolver == [permissions |-> Null, roles |-> Null, roleDefinitions |-> Null]

\* No object is tracked: the resolver is described by its fields' values.
NoMemory ==
  /\ heap = EmptyHeap
  /\ rbac = NoResolver
  /\ peer = NoResolver
  /\ configObject = NoResolver
  /\ held = Null

\* The fields become those of resolver t; the policy stays.
Becomes(t) ==
  /\ permissions' = t.permissions
  /\ roles' = t.roles
  /\ roleDefinitions' = t.roleDefinitions
  /\ UNCHANGED Policy
  /\ UNCHANGED Memory

\* The fields after new RoleBasedAccessControl(config), for some config.
Constructed ==
  \E config \in Configs :
    LET t == Construct(config)
    IN /\ permissions = t.permissions
       /\ roles = t.roles
       /\ roleDefinitions = t.roleDefinitions

\* new RoleBasedAccessControl(config), the configuration stating no policy.
Init ==
  /\ Constructed
  /\ restrictions = NoPolicy.restrictions
  /\ sectorRestrictions = NoPolicy.sectorRestrictions
  /\ sector = NoSector
  /\ NoMemory

\* new RoleBasedAccessControl(config), the configuration stating a policy or
\* none, and an active sector or none.
InitPolicy ==
  /\ Constructed
  /\ \E pc \in PolicyConfigs :
       /\ restrictions = pc.restrictions
       /\ sectorRestrictions = pc.sectorRestrictions
  /\ sector \in {NoSector} \cup Sectors
  /\ NoMemory

SetPermissions ==
  \E l \in PermLists :
    /\ Becomes(setPermissions(This, l).this)

AddPermissions ==
  \E l \in PermLists :
    /\ Becomes(addPermissions(This, l).this)

RemovePermissions ==
  \E l \in PermLists :
    /\ Becomes(removePermissions(This, l).this)

SetRoles ==
  \E l \in RoleLists :
    /\ Becomes(setRoles(This, l).this)

AddRoles ==
  \E l \in RoleLists :
    /\ Becomes(addRoles(This, l).this)

RemoveRoles ==
  \E l \in RoleLists :
    /\ Becomes(removeRoles(This, l).this)

SetRoleDefinitions ==
  \E d \in DefinitionObjects :
    /\ Becomes(setRoleDefinitions(This, d).this)

DefineRole ==
  \E r \in RoleNames, l \in DefinitionLists :
    /\ Becomes(defineRole(This, r, l).this)

RemoveRoleDefinition ==
  \E r \in RoleNames :
    /\ Becomes(removeRoleDefinition(This, r).this)

\* setSector(s) of the documented resolver (src/README.md): the active sector
\* of the policy changes; no field of the class under src/ does.
setSector(s) ==
  /\ sector' = s
  /\ UNCHANGED <<permissions, roles, roleDefinitions, restrictions, sectorRestrictions>>
  /\ UNCHANGED Memory

SetSector ==
  \E s \in {NoSector} \cup Sectors :
    /\ setSector(s)

\* The calls the class under src/ offers.
Next ==
  \/ SetPermissions
  \/ AddPermissions
  \/ RemovePermissions
  \/ SetRoles
  \/ AddRoles
  \/ RemoveRoles
  \/ SetRoleDefinitions
  \/ DefineRole
  \/ RemoveRoleDefinition

Spec == Init /\ [][Next]_vars

\* The same calls on a resolver configured with a policy, and sector switches.
NextPolicy ==
  \/ Next
  \/ SetSector

SpecPolicy == InitPolicy /\ [][NextPolicy]_vars

---------------------------------------------------------------------------
(* The same class with its objects told apart.  A field of the resolver,   *)
(* an argument and a returned collection are references: two of them may   *)
(* refer to one object, and a change made through one is then seen through *)
(* the other.  The calls are made on rbac; peer is only queried.           *)

\* The elements of the Set or Array a reference refers to.
Items(h, a) == h[a].items

\* The references a plain object's own properties hold.
PropRefs(h, a) == {h[a].props[k] : k \in DOMAIN h[a].props}

\* The fields of a resolver by value: what the methods of the class read.
View(h, this) ==
  [permissions |-> Items(h, this.permissions),
   roles |-> Items(h, this.roles),
   roleDefinitions |->
     [k \in DOMAIN h[this.roleDefinitions].props |->
        Items(h, h[this.roleDefinitions].props[k])]]

\* A call's outcome: the objects, the resolver's fields and what it handed
\* back, a reference to a collection (else Null) or a plain value (else "").
Outcome(h, this, ref, value) == [heap |-> h, this |-> this, ref |-> ref, value |-> value]

\* The order in which a mapping literal lists its keys.
RoleOrder == <<"admin", "editor", "constructor">>

\* The caller writes the arrays of a mapping literal { role: [...], ... }.
RECURSIVE WriteArrays(_, _, _, _)
WriteArrays(h, d, props, i) ==
  IF i > Len(RoleOrder) THEN [heap |-> h, props |-> props]
  ELSE IF RoleOrder[i] \notin DOMAIN d THEN WriteArrays(h, d, props, i + 1)
  ELSE LET n == New(h, ArrayCell(d[RoleOrder[i]]))
       IN WriteArrays(n.heap, d, PropertySet(props, RoleOrder[i], n.ref), i + 1)

\* The caller writes a mapping literal.
WriteObject(h, d) ==
  LET w == WriteArrays(h, d, NoProps, 1)
  IN New(w.heap, ObjectCell(w.props))

\* The caller writes a configuration literal { permissions, roles,
\* roleDefinitions }; a field it leaves out holds no reference.
WriteConfig(h, c) ==
  LET absent(g) == [heap |-> g, ref |-> Null]
      p == IF c.permissions.present THEN New(h, ArrayCell(c.permissions.value))
           ELSE absent(h)
      r == IF c.roles.present THEN New(p.heap, ArrayCell(c.roles.value))
           ELSE absent(p.heap)
      d == IF c.roleDefinitions.present THEN WriteObject(r.heap, c.roleDefinitions.value)
           ELSE absent(r.heap)
  IN [heap |-> d.heap,
      ref |-> [permissions |-> p.ref, roles |-> r.ref, roleDefinitions |-> d.ref]]

\* constructor(config): the two Sets are new objects; the role definitions
\* are the caller's object itself, or a new {} when the field is absent.
HeapConstruct(h, c) ==
  LET orEmpty(a) == IF a = Null THEN <<>> ELSE Items(h, a)
      p == New(h, SetCell(NewSet(orEmpty(c.permissions))))
      r == New(p.heap, SetCell(NewSet(orEmpty(c.roles))))
      d == IF c.roleDefinitions = Null THEN New(r.heap, ObjectCell(NoProps))
           ELSE [heap |-> r.heap, ref |-> c.roleDefinitions]
  IN [heap |-> d.heap,
      this |-> [permissions |-> p.ref, roles |-> r.ref, roleDefinitions |-> d.ref]]

\* Variant of HeapGetPermissions that hands out the resolver's own Set.
HeapGetPermissions_LiveView(h, this) ==
  Outcome(h, this, this.permissions, "")

\* getPermissions(): return new Set(this.permissions)
HeapGetPermissions(h, this) ==
  LET n == New(h, SetCell(NewSet(Items(h, this.permissions))))
  IN Outcome(n.heap, this, n.ref, "")

\* getRoles(): return new Set(this.roles)
HeapGetRoles(h, this) ==
  LET n == New(h, SetCell(NewSet(Items(h, this.roles))))
  IN Outcome(n.heap, this, n.ref, "")

\* Variant of HeapGetAllPermissions that fills this.permissions itself and
\* hands it out (const allPerms = this.permissions).
HeapGetAllPermissions_InPlace(h, this) ==
  LET all == getAllPermissions(View(h, this))
  IN IF all.threw THEN Outcome(h, this, Null, TypeError)
     ELSE Outcome([h EXCEPT ![this.permissions].items = all.value],
                  this, this.permissions, "")

\* getAllPermissions(): allPerms is a new Set filled from the assigned roles.
HeapGetAllPermissions(h, this) ==
  LET all == getAllPermissions(View(h, this))
  IN IF all.threw THEN Outcome(h, this, Null, TypeError)
     ELSE LET n == New(h, SetCell(all.value))
          IN Outcome(n.heap, this, n.ref, "")

\* Variant of HeapGetRoleDefinitions that hands out the resolver's own mapping.
HeapGetRoleDefinitions_Same(h, this) ==
  Outcome(h, this, this.roleDefinitions, "")

\* getRoleDefinitions(): { ...this.roleDefinitions }, a new object holding
\* the same references.
HeapGetRoleDefinitions(h, this) ==
  LET n == New(h, ObjectCell(h[this.roleDefinitions].props))
  IN Outcome(n.heap, this, n.ref, "")

\* getRolePermissions(role): the array the mapping holds, or a new [].
HeapGetRolePermissions(h, this, role) ==
  LET props == h[this.roleDefinitions].props
  IN IF role \in DOMAIN props THEN Outcome(h, this, props[role], "")
     ELSE IF role \in ObjectPrototypeKeys THEN Outcome(h, this, Null, "function")
     ELSE LET n == New(h, ArrayCell(<<>>))
          IN Outcome(n.heap, this, n.ref, "")

\* A boolean as the caller receives it.
BoolResult(b) == IF b THEN True ELSE False

\* setPermissions(permissions): this.permissions = new Set(permissions)
HeapSetPermissions(h, this, list) ==
  LET n == New(h, SetCell(NewSet(Items(h, list))))
  IN Outcome(n.heap, [this EXCEPT !.permissions = n.ref], Null, "")

\* addPermissions(perms): adds to the Set in place, returns a new Set.
HeapAddPermissions(h, this, list) ==
  LET h1 == [h EXCEPT ![this.permissions].items = AddAll(@, Items(h, list), 1)]
      n == New(h1, SetCell(NewSet(Items(h1, this.permissions))))
  IN Outcome(n.heap, this, n.ref, "")

\* removePermissions(perms): deletes from the Set in place, returns a new Set.
HeapRemovePermissions(h, this, list) ==
  LET h1 == [h EXCEPT ![this.permissions].items = DeleteAll(@, Items(h, list), 1)]
      n == New(h1, SetCell(NewSet(Items(h1, this.permissions))))
  IN Outcome(n.heap, this, n.ref, "")

\* setRoles(roles): this.roles = new Set(roles)
HeapSetRoles(h, this, list) ==
  LET n == New(h, SetCell(NewSet(Items(h, list))))
  IN Outcome(n.heap, [this EXCEPT !.roles = n.ref], Null, "")

\* addRoles(roles)
HeapAddRoles(h, this, list) ==
  LET h1 == [h EXCEPT ![this.roles].items = AddAll(@, Items(h, list), 1)]
      n == New(h1, SetCell(NewSet(Items(h1, this.roles))))
  IN Outcome(n.heap, this, n.ref, "")

\* removeRoles(roles)
HeapRemoveRoles(h, this, list) ==
  LET h1 == [h EXCEPT ![this.roles].items = DeleteAll(@, Items(h, list), 1)]
      n == New(h1, SetCell(NewSet(Items(h1, this.roles))))
  IN Outcome(n.heap, this, n.ref, "")

\* setRoleDefinitions(definitions): this.roleDefinitions = definitions, the
\* caller's object itself.
HeapSetRoleDefinitions(h, this, definitions) ==
  Outcome(h, [this EXCEPT !.roleDefinitions = definitions], Null, "")

\* defineRole(role, permissions): assigns the role if it is not assigned, then
\* stores the caller's array under the role in the object
\* this.roleDefinitions refers to.  (The array [role] and the Set addRoles
\* returns are dropped at once.)
HeapDefineRole(h, this, role, list) ==
  LET h1 == IF role \in Range(Items(h, this.roles)) THEN h
            ELSE [h EXCEPT ![this.roles].items = SetAdd(@, role)]
      h2 == [h1 EXCEPT ![this.roleDefinitions].props = PropertySet(@, role, list)]
  IN Outcome(h2, this, Null, "")

\* removeRoleDefinition(role): delete this.roleDefinitions[role]
HeapRemoveRoleDefinition(h, this, role) ==
  Outcome([h EXCEPT ![this.roleDefinitions].props = PropertyDelete(@, role)],
          this, Null, "")

\* The references an object is reached by: its own, then, for a mapping,
\* those of its properties in key order.
RefsOf(h, a) ==
  IF a = Null THEN <<>>
  ELSE LET keys == SelectSeq(RoleOrder, LAMBDA k : k \in DOMAIN h[a].props)
       IN <<a>> \o [i \in 1..Len(keys) |-> h[a].props[keys[i]]]

\* The objects the resolvers and the caller can still reach, each once, in
\* the order they are reached from rbac, peer, the config and the kept
\* reference.
Reachable(h, this, other, c, kept) ==
  AddAll(<<>>,
         RefsOf(h, this.permissions) \o RefsOf(h, this.roles)
           \o RefsOf(h, this.roleDefinitions)
           \o RefsOf(h, other.permissions) \o RefsOf(h, other.roles)
           \o RefsOf(h, other.roleDefinitions)
           \o RefsOf(h, c.permissions) \o RefsOf(h, c.roles)
           \o RefsOf(h, c.roleDefinitions)
           \o RefsOf(h, kept),
         1)

\* The address of object a once the reachable objects are numbered in order.
Renumber(order, a) ==
  IF a = Null THEN Null ELSE CHOOSE i \in 1..Len(order) : order[i] = a

RenumberFields(order, this) ==
  [permissions |-> Renumber(order, this.permissions),
   roles |-> Renumber(order, this.roles),
   roleDefinitions |-> Renumber(order, this.roleDefinitions)]

\* The reachable objects under their new addresses; objects nothing refers to
\* any more are dropped (garbage collection).  Addresses carry no meaning:
\* only which references refer to the same object does.
Compact(h, order) ==
  [i \in Addr |->
     IF i > Len(order) THEN FreeCell
     ELSE [h[order[i]] EXCEPT
             !.props = [k \in DOMAIN @ |-> Renumber(order, @[k])]]]

\* There is room for n more objects.
Room(n) == Cardinality(FreeAddrs(heap)) >= n

\* The objects are h, the fields of rbac are this, the caller keeps kept.
\* (The values that describe a resolver directly are not used here.)
TrackedBecomes(h, this, kept) ==
  \E order \in {Reachable(h, this, peer, configObject, kept)} :
    /\ heap' = Compact(h, order)
    /\ rbac' = RenumberFields(order, this)
    /\ peer' = RenumberFields(order, peer)
    /\ configObject' = RenumberFields(order, configObject)
    /\ held' = Renumber(order, kept)
    /\ UNCHANGED <<permissions, roles, roleDefinitions, restrictions, sector, sectorRestrictions>>

\* A call c on rbac ends.  The caller keeps one reference: the one it held
\* before, the argument it has just passed or the collection it has just been
\* handed.
Settle(c) ==
  \E call \in {c}, keep \in {"held", "argument", "result"} :
    \E kept \in {IF keep = "argument" THEN call.arg
                 ELSE IF keep = "result" THEN call.outcome.ref
                 ELSE held} :
      /\ keep = "held" \/ kept # Null
      /\ TrackedBecomes(call.outcome.heap, call.outcome.this, kept)

\* The calls tried on tracked objects.
HeapPermLists == {<<"read">>}

HeapRoleLists == {<<"admin">>}

HeapRoleNames == {"admin", "editor"}

HeapDefinedRoles == {"admin"}

HeapDefinitionLists == {<<"read">>}

HeapDefinitionObjects == {[r \in {"admin"} |-> <<"delete">>]}

\* new RoleBasedAccessControl() and
\* new RoleBasedAccessControl({ permissions: ['read'], roles: ['admin'],
\*                              roleDefinitions: { admin: ['delete'] } })
HeapConfigs ==
  {[permissions |-> Absent, roles |-> Absent, roleDefinitions |-> Absent],
   [permissions |-> Some(<<"read">>), roles |-> Some(<<"admin">>),
    roleDefinitions |-> Some([r \in {"admin"} |-> <<"delete">>])]}

\* const config = {...}; rbac = new RoleBasedAccessControl(config);
\* peer = new RoleBasedAccessControl(config); the caller holds the config.
InitHeap ==
  /\ \E c \in HeapConfigs :
       LET w == WriteConfig(EmptyHeap, c)
           first == HeapConstruct(w.heap, w.ref)
           second == HeapConstruct(first.heap, w.ref)
       IN /\ heap = second.heap
          /\ rbac = first.this
          /\ peer = second.this
          /\ configObject = w.ref
  /\ held = Null
  /\ permissions = <<>> /\ roles = <<>> /\ roleDefinitions = EmptyObject
  /\ restrictions = NoPolicy.restrictions
  /\ sectorRestrictions = NoPolicy.sectorRestrictions
  /\ sector = NoSector

\* The calls of a method on the resolver with fields this, among the objects
\* h: the outcome of each and the reference to the argument the caller wrote
\* for it (Null when the method takes no object).
Calls(h, this, method) ==
  LET call(o, arg) == [outcome |-> o, arg |-> arg]
      value(v) == call(Outcome(h, this, Null, v), Null)
      withList(op(_, _, _), l) ==
        LET w == New(h, ArrayCell(l)) IN call(op(w.heap, this, w.ref), w.ref)
  IN CASE method = "getPermissions" -> {call(HeapGetPermissions(h, this), Null)}
       [] method = "getRoles" -> {call(HeapGetRoles(h, this), Null)}
       [] method = "getAllPermissions" -> {call(HeapGetAllPermissions(h, this), Null)}
       [] method = "getRoleDefinitions" -> {call(HeapGetRoleDefinitions(h, this), Null)}
       [] method = "getRolePermissions" ->
            {call(HeapGetRolePermissions(h, this, r), Null) : r \in HeapRoleNames}
       [] method = "hasPermission" ->
            {value(hasPermission(View(h, this), p)) : p \in Perms}
       [] method = "can" ->
            {value(can(View(h, this), Many(l), every)) :
               l \in HeapPermLists, every \in BOOLEAN}
       [] method = "hasRole" ->
            {value(BoolResult(hasRole(View(h, this), r))) : r \in HeapRoleNames}
       [] method = "hasRoles" ->
            {value(BoolResult(hasRoles(View(h, this), Many(l), every))) :
               l \in HeapRoleLists, every \in BOOLEAN}
       [] method = "setPermissions" ->
            {withList(HeapSetPermissions, l) : l \in HeapPermLists}
       [] method = "addPermissions" ->
            {withList(HeapAddPermissions, l) : l \in HeapPermLists}
       [] method = "removePermissions" ->
            {withList(HeapRemovePermissions, l) : l \in HeapPermLists}
       [] method = "setRoles" -> {withList(HeapSetRoles, l) : l \in HeapRoleLists}
       [] method = "addRoles" -> {withList(HeapAddRoles, l) : l \in HeapRoleLists}
       [] method = "removeRoles" -> {withList(HeapRemoveRoles, l) : l \in HeapRoleLists}
       [] method = "setRoleDefinitions" ->
            {LET w == WriteObject(h, d)
             IN call(HeapSetRoleDefinitions(w.heap, this, w.ref), w.ref) :
               d \in HeapDefinitionObjects}
       [] method = "defineRole" ->
            {LET w == New(h, ArrayCell(l))
             IN call(HeapDefineRole(w.heap, this, r, w.ref), w.ref) :
               r \in HeapDefinedRoles, l \in HeapDefinitionLists}
       [] method = "removeRoleDefinition" ->
            {call(HeapRemoveRoleDefinition(h, this, r), Null) : r \in HeapDefinedRoles}

\* The calls that change the resolver.
MutationCalls ==
  UNION {Calls(heap, rbac, m) : m \in {"setPermissions", "addPermissions", "removePermissions",
                           "setRoles", "addRoles", "removeRoles",
                           "setRoleDefinitions", "defineRole", "removeRoleDefinition"}}

\* The calls that hand back a Set.
SetReturningCalls ==
  UNION {Calls(heap, rbac, m) : m \in {"getPermissions", "getAllPermissions", "getRoles",
                           "addPermissions", "removePermissions",
                           "addRoles", "removeRoles"}}

\* The calls that only ask.
QueryMethods ==
  {"hasPermission", "can", "hasRole", "hasRoles", "getPermissions",
   "getAllPermissions", "getRoles", "getRolePermissions", "getRoleDefinitions"}

\* The methods the class declares.
DeclaredMethods ==
  QueryMethods \cup {"setPermissions", "addPermissions", "removePermissions",
                     "setRoles", "addRoles", "removeRoles",
                     "setRoleDefinitions", "defineRole", "removeRoleDefinition"}

\* The methods an instance inherits from Object.prototype.  (Its member
\* constructor is the class itself, which cannot be called without new.)
InheritedMethods ==
  {"toString", "toLocaleString", "valueOf", "hasOwnProperty", "isPrototypeOf",
   "propertyIsEnumerable", "__defineGetter__", "__defineSetter__",
   "__lookupGetter__", "__lookupSetter__"}

\* rbac.method(...) on an instance of the class.  The member is looked up on
\* the instance, on the class and then on Object.prototype: a method found
\* there gives its answer; any other name is undefined or not a function,
\* and calling it throws a TypeError.
MemberCall(method, answer) ==
  IF method \in DeclaredMethods \cup InheritedMethods THEN answer ELSE TypeError

\* Most objects one call makes.
MaxNew == 2

CallGetPermissions == \E c \in Calls(heap, rbac, "getPermissions") : Room(MaxNew) /\ Settle(c)

CallGetRoles == \E c \in Calls(heap, rbac, "getRoles") : Room(MaxNew) /\ Settle(c)

CallGetAllPermissions == \E c \in Calls(heap, rbac, "getAllPermissions") : Room(MaxNew) /\ Settle(c)

CallGetRoleDefinitions == \E c \in Calls(heap, rbac, "getRoleDefinitions") : Room(MaxNew) /\ Settle(c)

CallGetRolePermissions == \E c \in Calls(heap, rbac, "getRolePermissions") : Room(MaxNew) /\ Settle(c)

CallHasPermission == \E c \in Calls(heap, rbac, "hasPermission") : Settle(c)

CallCan == \E c \in Calls(heap, rbac, "can") : Settle(c)

CallHasRole == \E c \in Calls(heap, rbac, "hasRole") : Settle(c)

CallHasRoles == \E c \in Calls(heap, rbac, "hasRoles") : Settle(c)

CallSetPermissions == \E c \in Calls(heap, rbac, "setPermissions") : Room(MaxNew) /\ Settle(c)

CallAddPermissions == \E c \in Calls(heap, rbac, "addPermissions") : Room(MaxNew) /\ Settle(c)

CallRemovePermissions == \E c \in Calls(heap, rbac, "removePermissions") : Room(MaxNew) /\ Settle(c)

CallSetRoles == \E c \in Calls(heap, rbac, "setRoles") : Room(MaxNew) /\ Settle(c)

CallAddRoles == \E c \in Calls(heap, rbac, "addRoles") : Room(MaxNew) /\ Settle(c)

CallRemoveRoles == \E c \in Calls(heap, rbac, "removeRoles") : Room(MaxNew) /\ Settle(c)

CallSetRoleDefinitions == \E c \in Calls(heap, rbac, "setRoleDefinitions") : Room(MaxNew) /\ Settle(c)

CallDefineRole == \E c \in Calls(heap, rbac, "defineRole") : Room(MaxNew) /\ Settle(c)

CallRemoveRoleDefinition == \E c \in Calls(heap, rbac, "removeRoleDefinition") : Settle(c)

\* The objects the caller changes: the one it kept a reference to and, if
\* that is a mapping, the arrays the mapping holds.
CallerTargets ==
  LET direct == {held} \ {Null}
  IN direct \cup UNION {PropRefs(heap, a) : a \in direct}

\* set.add(x), set.delete(x) on a Set the caller holds, among the objects h.
CallerSetChanges(h, a) ==
  {[h EXCEPT ![a].items = SetAdd(@, x)] : x \in Perms}
    \cup {[h EXCEPT ![a].items = SetDelete(@, x)] : x \in Perms}

\* list.push(x) of a permission the array lacks, list.pop() on an array the
\* caller holds.
CallerArrayChanges(h, a) ==
  {[h EXCEPT ![a].items = Append(@, x)] : x \in Perms \ Range(h[a].items)}
    \cup {[h EXCEPT ![a].items = SubSeq(@, 1, Len(@) - 1)] :
            x \in {y \in Perms : Len(h[a].items) > 0}}

\* mapping[r] = [x], delete mapping[r] on a mapping the caller holds, for the
\* role keys in names.
CallerObjectChanges(h, a, names) ==
  {[New(h, ArrayCell(<<x>>)).heap EXCEPT
      ![a].props = PropertySet(@, r, New(h, ArrayCell(<<x>>)).ref)] :
     r \in names, x \in Perms}
    \cup {[h EXCEPT ![a].props = PropertyDelete(@, r)] : r \in names}

\* The caller changes an object it holds: every reference stays as it is.
CallerChangesSet ==
  \E a \in CallerTargets :
    /\ heap[a].kind = "Set"
    /\ \E h \in CallerSetChanges(heap, a) : TrackedBecomes(h, rbac, held)

CallerChangesArray ==
  \E a \in CallerTargets :
    /\ heap[a].kind = "Array"
    /\ \E h \in CallerArrayChanges(heap, a) : TrackedBecomes(h, rbac, held)

CallerChangesObject ==
  \E a \in CallerTargets :
    /\ heap[a].kind = "Object"
    /\ Room(MaxNew)
    /\ \E h \in CallerObjectChanges(heap, a, HeapDefinedRoles) : TrackedBecomes(h, rbac, held)

\* The calls on rbac and what the caller does with the objects it holds.
NextHeap ==
  \/ CallGetPermissions
  \/ CallGetRoles
  \/ CallGetAllPermissions
  \/ CallGetRoleDefinitions
  \/ CallGetRolePermissions
  \/ CallHasPermission
  \/ CallCan
  \/ CallHasRole
  \/ CallHasRoles
  \/ CallSetPermissions
  \/ CallAddPermissions
  \/ CallRemovePermissions
  \/ CallSetRoles
  \/ CallAddRoles
  \/ CallRemoveRoles
  \/ CallSetRoleDefinitions
  \/ CallDefineRole
  \/ CallRemoveRoleDefinition
  \/ CallerChangesSet
  \/ CallerChangesArray
  \/ CallerChangesObject

SpecHeap == InitHeap /\ [][NextHeap]_vars

---------------------------------------------------------------------------
(* Notions of the specification's data model, used to state the claims. *)

RoleSet(this) == Range(this.roles)

PermissionSet(this) == Range(this.permissions)

\* RoleDefinitions[r]: the permissions role r is defined to grant; a role
\* with no entry grants nothing.
DefinedPerms(this, r) ==
  IF r \in DOMAIN this.roleDefinitions THEN Range(this.roleDefinitions[r]) ELSE {}

\* Effective grant: direct, or granted by an assigned role.
EffectiveGrant(this, p) ==
  p \in PermissionSet(this) \/ \E r \in RoleSet(this) : p \in DefinedPerms(this, r)

\* Effective grant with role r left out of the RoleSet.
GrantedWithout(this, r, p) ==
  p \in PermissionSet(this) \/ \E r2 \in RoleSet(this) \ {r} : p \in DefinedPerms(this, r2)

GrantView(this) == {p \in Perms : EffectiveGrant(this, p)}

\* SectorRestrictions[s]; a sector with no entry restricts nothing.
SectorDenies(s, p) ==
  s # NoSector /\ s \in DOMAIN sectorRestrictions /\ p \in sectorRestrictions[s]

\* Effective allow: granted, and denied neither globally nor by the sector.
EffectiveAllow(this, p) ==
  EffectiveGrant(this, p) /\ p \notin restrictions /\ ~SectorDenies(sector, p)

\* isRestricted(p): p is denied by the global restrictions or by the
\* restrictions of the active sector.
isRestricted(p) == p \in restrictions \/ SectorDenies(sector, p)

\* getRestrictionReason(p): direct, sector or none; the global restriction is
\* the one reported when both apply.
getRestrictionReason(p) ==
  IF p \in restrictions THEN "direct"
  ELSE IF SectorDenies(sector, p) THEN "sector"
  ELSE "none"

\* The empty list, as getRolePermissions returns it.
EmptyArray == [kind |-> "array", items |-> <<>>]

---------------------------------------------------------------------------
(* Claims. *)

\* C1: in every reachable state hasPermission(x) is true iff x is granted
\* (directly or by an assigned role) and x is not in Restrictions and x is not
\* in SectorRestrictions[ActiveSector].
C1_HasPermissionIsEffectiveAllow ==
  \A x \in Perms : (hasPermission(This, x) = True) <=> EffectiveAllow(This, x)

\* C2: a permission in the global Restrictions is denied by hasPermission, and
\* makes can([.. p ..], ALL) false, even when it is granted directly or by an
\* assigned role.
C2_RestrictionPrecedence ==
  \A p \in restrictions :
    /\ hasPermission(This, p) = False
    /\ \A l \in PermLists : p \in Range(l) => can(This, Many(l), TRUE) = False

\* C3: while the active sector restricts p, hasPermission(p) is false even if
\* p is granted; right after setSector(t), where t's restriction list does not
\* contain p (or t is no sector), hasPermission(p) is true whenever p is
\* granted and not globally restricted.
C3_SectorSwitching ==
  [][\A t \in {NoSector} \cup Sectors, p \in Perms :
       setSector(t) =>
         /\ SectorDenies(sector, p) => hasPermission(This, p) = False
         /\ (~SectorDenies(t, p) /\ EffectiveGrant(This, p) /\ p \notin restrictions)
              => hasPermission(This, p)' = True]_vars

\* C4: in every reachable state getAllPermissions() returns exactly the union
\* of the direct permissions and the permissions of the definitions of the
\* assigned roles (an assigned role with no definition contributes nothing),
\* unfiltered by any restriction.
C4_GetAllPermissionsIsGrantView ==
  /\ ~getAllPermissions(This).threw
  /\ Range(getAllPermissions(This).value) = GrantView(This)

\* C5: can(p, mode) of one permission equals hasPermission(p); can(list, ALL),
\* also with the mode omitted, is true iff every element passes hasPermission;
\* can(list, ANY) is true iff at least one element passes hasPermission.
C5_CanSemantics ==
  /\ \A p \in Perms, every \in BOOLEAN :
       can(This, Single(p), every) = hasPermission(This, p)
  /\ \A l \in PermLists :
       LET Passes(i) == hasPermission(This, l[i]) = True
       IN /\ can(This, Many(l), TRUE) = True <=> \A i \in 1..Len(l) : Passes(i)
          /\ canDefault(This, Many(l)) = True <=> \A i \in 1..Len(l) : Passes(i)
          /\ can(This, Many(l), FALSE) = True <=> \E i \in 1..Len(l) : Passes(i)

\* C6: hasRole(r) is true iff r is in the assigned RoleSet; hasRoles applies
\* ALL/ANY over that membership, with ANY when the mode is omitted; neither
\* depends on the role definitions or on any restriction.
C6_RoleQueries ==
  /\ \A r \in RoleNames, every \in BOOLEAN :
       /\ hasRole(This, r) <=> r \in RoleSet(This)
       /\ hasRoles(This, Single(r), every) <=> r \in RoleSet(This)
       /\ hasRolesDefault(This, Single(r)) <=> r \in RoleSet(This)
  /\ \A l \in RoleLists :
       /\ hasRoles(This, Many(l), TRUE) <=> \A i \in 1..Len(l) : l[i] \in RoleSet(This)
       /\ hasRoles(This, Many(l), FALSE) <=> \E i \in 1..Len(l) : l[i] \in RoleSet(This)
       /\ hasRolesDefault(This, Many(l)) <=> \E i \in 1..Len(l) : l[i] \in RoleSet(This)

\* C6 witness: an assigned role without a definition and an unassigned role
\* with one; the two roles listed pass ANY (also by default) and fail ALL.
C6_Witness ==
  \E a, b \in RoleNames :
    /\ a \in RoleSet(This) /\ a \notin DOMAIN roleDefinitions
    /\ b \notin RoleSet(This) /\ b \in DOMAIN roleDefinitions
    /\ hasRolesDefault(This, Many(<<b, a>>))
    /\ hasRoles(This, Many(<<b, a>>), FALSE)
    /\ ~hasRoles(This, Many(<<b, a>>), TRUE)

\* C7: from every reachable state, defineRole(r, perms) sets
\* RoleDefinitions[r] to perms, replacing any prior definition and leaving the
\* other definitions and the direct permissions alone, and adds r to the
\* RoleSet if absent; right afterwards hasRole(r) is true and every permission
\* of perms is in the effective grant (hasPermission never answers false for
\* it).
C7_DefineRoleAssignsAndGrants ==
  \A r \in RoleNames, l \in DefinitionLists :
    LET after == defineRole(This, r, l).this
    IN /\ DOMAIN after.roleDefinitions = DOMAIN roleDefinitions \cup {r}
       /\ after.roleDefinitions[r] = l
       /\ \A k \in DOMAIN roleDefinitions \ {r} :
            after.roleDefinitions[k] = roleDefinitions[k]
       /\ after.permissions = permissions
       /\ RoleSet(after) = RoleSet(This) \cup {r}
       /\ hasRole(after, r)
       /\ \A p \in Range(l) :
            EffectiveGrant(after, p) /\ hasPermission(after, p) # False

\* C7 witness: a role that is neither assigned nor the holder of the new
\* definition is given two permissions that nothing granted before; after
\* defineRole it is assigned and hasPermission answers true for both.
C7_Witness ==
  \E r \in RoleNames :
    LET after == defineRole(This, r, <<"read", "delete">>).this
    IN /\ ~hasRole(This, r)
       /\ r \in DOMAIN roleDefinitions /\ roleDefinitions[r] = <<"read">>
       /\ \A p \in Perms : hasPermission(This, p) = False
       /\ hasRole(after, r)
       /\ \A p \in Perms : hasPermission(after, p) = True

\* C8: from every reachable state, after removeRoles([.. r ..]), or setRoles
\* to a list without r, with r's definition left in place, hasPermission and
\* getAllPermissions no longer count r's permissions: p is granted only if it
\* is direct or granted by another role that is still assigned.
C8_RemovedRoleStopsGranting ==
  \A l \in RoleLists :
    LET afterRemove == removeRoles(This, l).this
        afterSet == setRoles(This, l).this
        Holds(after, r) ==
          /\ r \notin RoleSet(after)
          /\ after.roleDefinitions = roleDefinitions
          /\ \A p \in Perms :
               /\ hasPermission(after, p) = True => GrantedWithout(after, r, p)
               /\ hasPermission(after, p) = False => ~GrantedWithout(after, r, p)
               /\ ~getAllPermissions(after).threw =>
                    (p \in Range(getAllPermissions(after).value)
                       <=> GrantedWithout(after, r, p))
    IN \A r \in RoleNames :
         IF r \in Range(l) THEN Holds(afterRemove, r) ELSE Holds(afterSet, r)

\* C8 witness: nothing is granted directly, role r is assigned and alone
\* grants p, another assigned role r2 grants q; after removeRoles([r]) the
\* definition of r is still there, p is denied, q is still granted and
\* getAllPermissions is {q}.
C8_Witness ==
  \E r, r2 \in RoleNames, p, q \in Perms :
    LET after == removeRoles(This, <<r>>).this
    IN /\ r # r2 /\ p # q
       /\ PermissionSet(This) = {}
       /\ hasRole(This, r) /\ hasRole(This, r2)
       /\ DefinedPerms(This, r) = {p} /\ DefinedPerms(This, r2) = {q}
       /\ hasPermission(This, p) = True /\ hasPermission(This, q) = True
       /\ DefinedPerms(after, r) = {p}
       /\ hasPermission(after, p) = False
       /\ hasPermission(after, q) = True
       /\ ~getAllPermissions(after).threw
       /\ Range(getAllPermissions(after).value) = {q}

\* C9: from every reachable state, removeRoleDefinition(r) deletes
\* RoleDefinitions[r] and leaves the RoleSet and the direct permissions
\* unchanged: hasRole(r) keeps its value, and r, while assigned without a
\* definition, grants nothing (getRolePermissions(r) is empty).
C9_RemoveRoleDefinition ==
  \A r \in RoleNames :
    LET after == removeRoleDefinition(This, r).this
    IN /\ r \notin DOMAIN after.roleDefinitions
       /\ after.roles = roles /\ after.permissions = permissions
       /\ hasRole(after, r) <=> hasRole(This, r)
       /\ hasRole(after, r) => getRolePermissions(after, r) = EmptyArray
       /\ \A p \in Perms : hasPermission(after, p) = True => GrantedWithout(after, r, p)

\* C10: no query throws; for every assigned role with no entry in the role
\* definitions, whatever its name, hasPermission returns a boolean and
\* getRolePermissions returns an empty list; hasPermission of a permission
\* mentioned nowhere returns false.
C10_Total ==
  /\ \A p \in Perms : hasPermission(This, p) \in {True, False}
  /\ \A l \in PermLists, every \in BOOLEAN : can(This, Many(l), every) \in {True, False}
  /\ ~getAllPermissions(This).threw
  /\ \A r \in RoleSet(This) \ DOMAIN roleDefinitions :
       getRolePermissions(This, r) = EmptyArray
  /\ \A p \in Perms :
       (p \notin PermissionSet(This) /\ \A r \in RoleNames : p \notin DefinedPerms(This, r))
         => hasPermission(This, p) = False

\* C11: a Set handed back by getPermissions, getAllPermissions, getRoles,
\* addPermissions, removePermissions, addRoles or removeRoles is a new object
\* (a copy): no later mutation call on the resolver changes a Set the caller
\* holds, and adding to or deleting from that Set changes no field of rbac or
\* of peer, hence no later query result; getPermissions holds exactly the
\* direct permissions, role-derived ones excluded.
C11_SnapshotsAreCopies ==
  /\ \A c \in SetReturningCalls :
       c.outcome.ref # Null =>
         /\ heap[c.outcome.ref].kind = "free"
         /\ c.outcome.heap[c.outcome.ref].kind = "Set"
  /\ (held # Null /\ heap[held].kind = "Set") =>
       /\ \A c \in MutationCalls : Items(c.outcome.heap, held) = Items(heap, held)
       /\ \A h \in CallerSetChanges(heap, held) :
            /\ View(h, rbac) = View(heap, rbac)
            /\ View(h, peer) = View(heap, peer)
  /\ \A c \in Calls(heap, rbac, "getPermissions") :
       /\ Items(c.outcome.heap, c.outcome.ref) = Items(heap, rbac.permissions)
       /\ Range(Items(c.outcome.heap, c.outcome.ref)) = PermissionSet(View(heap, rbac))

\* C11 witness: the caller holds a Set with "read" in it, handed back while
\* "read" was granted; since then the resolver has lost every direct
\* permission and every role, and a role-derived permission is defined.
C11_Witness ==
  /\ held # Null /\ heap[held].kind = "Set"
  /\ Items(heap, held) = <<"read">>
  /\ View(heap, rbac).permissions = <<>>
  /\ View(heap, rbac).roles = <<>>
  /\ DefinedPerms(View(heap, rbac), "admin") = {"delete"}

\* C12: getRolePermissions(r) returns a copy of the role's permission list (or
\* a new empty list): the array handed back is a new object, and no push or
\* pop the caller makes on it changes the permissions, roles or role
\* definitions either resolver answers its queries from.
C12_RolePermissionsIsCopy ==
  \A c \in Calls(heap, rbac, "getRolePermissions") :
    c.outcome.ref # Null =>
      /\ heap[c.outcome.ref].kind = "free"
      /\ \A h \in CallerArrayChanges(c.outcome.heap, c.outcome.ref) :
           /\ View(h, rbac) = View(heap, rbac)
           /\ View(h, peer) = View(heap, peer)

\* C13: mutation calls alter only the resolver's own state: no mutation call
\* on a resolver changes what the caller reads in the configuration object
\* the resolver was constructed from (its permissions list, its roles list
\* and its roleDefinitions mapping with the lists it holds).
C13_ConfigUntouched ==
  \A c \in MutationCalls :
    LET list(h, a) == IF a = Null THEN Absent ELSE Some(Items(h, a))
        mapping(h, a) ==
          IF a = Null THEN Absent
          ELSE Some([k \in DOMAIN h[a].props |-> Items(h, h[a].props[k])])
        config(h) == [permissions |-> list(h, configObject.permissions),
                      roles |-> list(h, configObject.roles),
                      roleDefinitions |-> mapping(h, configObject.roleDefinitions)]
    IN config(c.outcome.heap) = config(heap)

\* C14: resolver instances are independent: no mutation call on one resolver
\* changes the permissions, roles or role definitions another resolver
\* answers its queries from, also when both were constructed from the same
\* configuration object.
C14_InstancesIndependent ==
  \A c \in MutationCalls : View(c.outcome.heap, peer) = View(heap, peer)

\* C15: add and remove are element-wise no-ops where they have nothing to do.
\* Adding permissions (roles) that are all present leaves the direct
\* permissions (assigned roles) as they are, removing ones that are all
\* absent does too, the same add applied twice leaves what one application
\* leaves, and after an add each added element is there exactly once.
C15_AddRemoveNoOps ==
  LET occurrences(s, x) == Cardinality({i \in 1..Len(s) : s[i] = x})
  IN /\ \A l \in PermLists :
          LET once == addPermissions(This, l)
              twice == addPermissions(once.this, l)
          IN /\ Range(l) \subseteq Range(permissions) => once.this = This
             /\ Range(l) \cap Range(permissions) = {} =>
                  removePermissions(This, l).this = This
             /\ twice.this = once.this
             /\ twice.returned = once.returned
             /\ \A x \in Range(l) : occurrences(twice.returned, x) = 1
     /\ \A l \in RoleLists :
          LET once == addRoles(This, l)
              twice == addRoles(once.this, l)
          IN /\ Range(l) \subseteq Range(roles) => once.this = This
             /\ Range(l) \cap Range(roles) = {} => removeRoles(This, l).this = This
             /\ twice.this = once.this
             /\ twice.returned = once.returned
             /\ \A x \in Range(l) : occurrences(twice.returned, x) = 1

\* C15 witness: "read" is a direct permission and "delete" is not, "admin" is
\* assigned and "editor" is not; adding "read" or "admin" again and removing
\* "delete" or "editor" return the collections as they are.
C15_Witness ==
  /\ permissions = <<"read">>
  /\ roles = <<"admin">>
  /\ addPermissions(This, <<"read", "read">>).returned = <<"read">>
  /\ removePermissions(This, <<"delete">>).returned = <<"read">>
  /\ addRoles(This, <<"admin">>).returned = <<"admin">>
  /\ removeRoles(This, <<"editor">>).returned = <<"admin">>

\* C16: round trip of replace.  From any state, setPermissions(L) followed by
\* getPermissions() yields exactly the elements of L, each once, whatever the
\* order and duplicates of L and whatever the direct permissions were
\* before; likewise setRoles(L) followed by getRoles().
C16_ReplaceRoundTrip ==
  /\ \A l \in PermLists :
       LET got == getPermissions(setPermissions(This, l).this)
       IN /\ Range(got) = Range(l)
          /\ Len(got) = Cardinality(Range(l))
  /\ \A l \in RoleLists :
       LET got == getRoles(setRoles(This, l).this)
       IN /\ Range(got) = Range(l)
          /\ Len(got) = Cardinality(Range(l))

\* C16 witness: the direct permissions are "delete" then "read" and the
\* roles "editor" then "admin"; replacing them by ["read", "read"] and
\* ["admin", "admin"] leaves "read" alone and "admin" alone.
C16_Witness ==
  /\ permissions = <<"delete", "read">>
  /\ roles = <<"editor", "admin">>
  /\ getPermissions(setPermissions(This, <<"read", "read">>).this) = <<"read">>
  /\ getRoles(setRoles(This, <<"admin", "admin">>).this) = <<"admin">>

\* C17: isRestricted(p) is true iff p is in the global Restrictions or in
\* SectorRestrictions[ActiveSector], whether or not p is granted by a direct
\* permission or a role.
C17_IsRestricted ==
  \A p \in Perms :
    LET active == IF sector \in DOMAIN sectorRestrictions
                  THEN sectorRestrictions[sector] ELSE {}
    IN MemberCall("isRestricted", BoolResult(isRestricted(p)))
         = BoolResult(p \in restrictions \cup active)

\* C18: getRestrictionReason(p) is direct if p is in the global Restrictions,
\* sector if p is in SectorRestrictions[ActiveSector] and not in the global
\* Restrictions, none otherwise; restricted both ways, the answer is direct.
C18_RestrictionReason ==
  \A p \in Perms :
    LET active == IF sector \in DOMAIN sectorRestrictions
                  THEN sectorRestrictions[sector] ELSE {}
        reason == MemberCall("getRestrictionReason", getRestrictionReason(p))
    IN /\ reason \in {"none", "direct", "sector"}
       /\ reason = "direct" <=> p \in restrictions
       /\ reason = "sector" <=> p \in active \ restrictions
       /\ reason = "none" <=> p \notin restrictions \cup active
       /\ p \in restrictions \cap active => reason = "direct"

\* C19: a resolver constructed with no configuration, or with every option
\* absent or empty, denies everything: hasPermission(p) is false for every
\* p, hasRole(r) is false for every r and getAllPermissions() is empty; and a
\* resolver in that state stays so until a mutation changes it.
C19_EmptyDeniesAll ==
  LET denies(this) ==
        /\ \A p \in Perms : hasPermission(this, p) = False
        /\ \A r \in RoleNames : ~hasRole(this, r)
        /\ getAllPermissions(this) = [threw |-> FALSE, value |-> <<>>]
  IN /\ \A c \in [permissions : {Absent, Some(<<>>)},
                   roles : {Absent, Some(<<>>)},
                   roleDefinitions : {Absent, Some(EmptyObject)}] :
          denies(Construct(c))
     /\ This = Construct([permissions |-> Absent, roles |-> Absent,
                          roleDefinitions |-> Absent]) => denies(This)

\* C19 witness: the resolver is as new RoleBasedAccessControl() leaves it and
\* refuses "read", "delete" and every role.
C19_Witness ==
  /\ This = Construct([permissions |-> Absent, roles |-> Absent,
                       roleDefinitions |-> Absent])
  /\ hasPermission(This, "read") = False
  /\ hasPermission(This, "delete") = False
  /\ ~hasRole(This, "admin")
  /\ getAllPermissions(This).value = <<>>

\* C20: every query (hasPermission, can, hasRole, hasRoles, getPermissions,
\* getAllPermissions, getRoles, getRolePermissions, getRoleDefinitions) is
\* side-effect-free: it leaves the fields of the resolver and every object
\* that existed before it as they were, so the permissions, roles and role
\* definitions are unchanged, and every query asked next returns what it
\* would have returned before.
C20_QueriesPure ==
  LET answer(c) ==
        IF c.outcome.ref = Null THEN <<"value", c.outcome.value>>
        ELSE <<c.outcome.heap[c.outcome.ref].kind,
               Items(c.outcome.heap, c.outcome.ref),
               [k \in DOMAIN c.outcome.heap[c.outcome.ref].props |->
                  Items(c.outcome.heap, c.outcome.heap[c.outcome.ref].props[k])]>>
      answers(h, this, m) == {answer(c) : c \in Calls(h, this, m)}
  IN \A first \in QueryMethods :
       \A c \in Calls(heap, rbac, first) :
         /\ c.outcome.this = rbac
         /\ \A a \in Addr : heap[a].kind # "free" => c.outcome.heap[a] = heap[a]
         /\ View(c.outcome.heap, rbac) = View(heap, rbac)
         /\ View(c.outcome.heap, peer) = View(heap, peer)
         /\ \A next \in QueryMethods :
              answers(c.outcome.heap, c.outcome.this, next) = answers(heap, rbac, next)

\* C20 witness: the caller holds the Set getAllPermissions handed back, with
\* the direct "read" and the role-derived "delete" in it, and the direct
\* permissions are still "read" alone.
C20_Witness ==
  /\ held # Null /\ heap[held].kind = "Set"
  /\ Items(heap, held) = <<"read", "delete">>
  /\ View(heap, rbac).permissions = <<"read">>
  /\ View(heap, rbac).roles = <<"admin">>
  /\ DefinedPerms(View(heap, rbac), "admin") = {"delete"}
  /\ \E c \in Calls(heap, rbac, "getAllPermissions") :
       Items(c.outcome.heap, c.outcome.ref) = Items(heap, held)

\* C21: in every state can([], true) and can([]) with the mode omitted return
\* true and can([], false) returns false, whatever the permissions, roles
\* and role definitions are.
C21_CanEmptyList ==
  /\ can(This, Many(<<>>), TRUE) = True
  /\ canDefault(This, Many(<<>>)) = True
  /\ can(This, Many(<<>>), FALSE) = False

\* C21 witness: "read" is granted directly and "delete" through a role, and
\* the empty list is still accepted under every and refused under some.
C21_Witness ==
  /\ hasPermission(This, "read") = True
  /\ "delete" \notin PermissionSet(This) /\ hasPermission(This, "delete") = True
  /\ can(This, Many(<<>>), TRUE) = True
  /\ can(This, Many(<<>>), FALSE) = False

\* C22: isRestricted(x) is true exactly when x is in the effective grant
\* (direct or through an assigned role) and hasPermission(x) is nevertheless
\* false because of Restrictions or SectorRestrictions[ActiveSector]; for a
\* permission that is not granted at all isRestricted(x) is false.
C22_RestrictedIsBlockedGrant ==
  \A x \in Perms :
    /\ isRestricted(x) <=>
         /\ EffectiveGrant(This, x)
         /\ hasPermission(This, x) = False
         /\ (x \in restrictions \/ SectorDenies(sector, x))
    /\ ~EffectiveGrant(This, x) => ~isRestricted(x)

\* C23: getRoleDefinitions() returns a shallow copy of the full mapping: a new
\* object with exactly the roles currently defined and their permission
\* lists, such that adding, replacing or deleting a role key on it changes
\* nothing either resolver answers its queries from.
C23_RoleDefinitionsShallowCopy ==
  \A c \in Calls(heap, rbac, "getRoleDefinitions") :
    LET copy == c.outcome.ref
    IN /\ heap[copy].kind = "free"
       /\ c.outcome.heap[copy].kind = "Object"
       /\ c.outcome.heap[copy].props = heap[rbac.roleDefinitions].props
       /\ [k \in DOMAIN c.outcome.heap[copy].props |->
             Items(c.outcome.heap, c.outcome.heap[copy].props[k])]
            = View(heap, rbac).roleDefinitions
       /\ \A h \in CallerObjectChanges(c.outcome.heap, copy, HeapRoleNames) :
            /\ View(h, rbac) = View(heap, rbac)
            /\ View(h, peer) = View(heap, peer)

\* C23 witness: the caller holds a mapping that is not the resolver's own and
\* has lost the key "admin" since it was handed back, while the resolver
\* still defines "admin".
C23_Witness ==
  /\ held # Null /\ heap[held].kind = "Object"
  /\ held # rbac.roleDefinitions /\ held # peer.roleDefinitions
  /\ "admin" \notin DOMAIN heap[held].props
  /\ DefinedPerms(View(heap, rbac), "admin") = {"delete"}
  /\ \E c \in Calls(heap, rbac, "getRoleDefinitions") :
       "admin" \in DOMAIN c.outcome.heap[c.outcome.ref].props

\* C24: the Set addPermissions / removePermissions returns is what
\* getPermissions() returns right afterwards, and the Set addRoles /
\* removeRoles returns is what getRoles() returns right afterwards: the
\* updated set, that is the previous elements with the passed ones added
\* (taken out), not the previous set and not the passed elements alone.
C24_ReturnedIsUpdatedSet ==
  /\ \A l \in PermLists :
       LET added == addPermissions(This, l)
           removed == removePermissions(This, l)
       IN /\ added.returned = getPermissions(added.this)
          /\ Range(added.returned) = PermissionSet(This) \cup Range(l)
          /\ removed.returned = getPermissions(removed.this)
          /\ Range(removed.returned) = PermissionSet(This) \ Range(l)
  /\ \A l \in RoleLists :
       LET added == addRoles(This, l)
           removed == removeRoles(This, l)
       IN /\ added.returned = getRoles(added.this)
          /\ Range(added.returned) = RoleSet(This) \cup Range(l)
          /\ removed.returned = getRoles(removed.this)
          /\ Range(removed.returned) = RoleSet(This) \ Range(l)

\* C24 witness: with "read" granted directly and "admin" assigned, adding
\* "delete" returns both permissions, removing "read" returns none, adding
\* "editor" returns both roles and removing "admin" returns none.
C24_Witness ==
  /\ permissions = <<"read">>
  /\ roles = <<"admin">>
  /\ addPermissions(This, <<"delete">>).returned = <<"read", "delete">>
  /\ removePermissions(This, <<"read">>).returned = <<>>
  /\ addRoles(This, <<"editor">>).returned = <<"admin", "editor">>
  /\ removeRoles(This, <<"admin">>).returned = <<>>

\* C25: no operation replaces the roles and the role definitions together.
\* The only call that changes both is defineRole, which adds one role and
\* sets one key and takes nothing away; so replacing both takes setRoles and
\* setRoleDefinitions, in either order, and passes through a state a query
\* can observe: the new roles with the old definitions, or the old roles
\* with the new definitions.  Both orders end in the same state.
C25_ReplaceInTwoSteps ==
  LET single ==
        {setPermissions(This, l).this : l \in PermLists}
          \cup {addPermissions(This, l).this : l \in PermLists}
          \cup {removePermissions(This, l).this : l \in PermLists}
          \cup {setRoles(This, l).this : l \in RoleLists}
          \cup {addRoles(This, l).this : l \in RoleLists}
          \cup {removeRoles(This, l).this : l \in RoleLists}
          \cup {setRoleDefinitions(This, d).this : d \in DefinitionObjects}
          \cup {defineRole(This, r, l).this : r \in RoleNames, l \in DefinitionLists}
          \cup {removeRoleDefinition(This, r).this : r \in RoleNames}
  IN /\ \A t \in single :
          (t.roles # roles /\ t.roleDefinitions # roleDefinitions) =>
            \E r \in RoleNames \ RoleSet(This) :
              /\ t.roles = Append(roles, r)
              /\ r \in DOMAIN t.roleDefinitions
              /\ \A k \in DOMAIN roleDefinitions \ {r} :
                   k \in DOMAIN t.roleDefinitions
                     /\ t.roleDefinitions[k] = roleDefinitions[k]
     /\ \A l \in RoleLists : setRoles(This, l).this = [This EXCEPT !.roles = NewSet(l)]
     /\ \A d \in DefinitionObjects :
          setRoleDefinitions(This, d).this = [This EXCEPT !.roleDefinitions = d]
     /\ \A l \in {NewSet(k) : k \in RoleLists} :
          \A rolesFirst \in {setRoles(This, l).this} :
            \A d \in DefinitionObjects :
              \A end \in {setRoleDefinitions(rolesFirst, d).this} :
                /\ end = setRoles(setRoleDefinitions(This, d).this, l).this
                /\ end = [This EXCEPT !.roles = l, !.roleDefinitions = d]

\* C25 witness: the roles are ["editor"] with admin defined as ["delete"],
\* which grants nothing; the new configuration, roles ["admin"] with admin
\* defined as ["read"], does not grant "delete" either; but after
\* setRoles(["admin"]) alone "delete" is granted, and after
\* setRoleDefinitions alone nothing is.
C25_Witness ==
  LET new == [admin |-> <<"read">>]
      rolesFirst == setRoles(This, <<"admin">>).this
      definitionsFirst == setRoleDefinitions(This, new).this
  IN /\ permissions = <<>>
     /\ roles = <<"editor">>
     /\ roleDefinitions = [admin |-> <<"delete">>]
     /\ hasPermission(This, "delete") = False
     /\ hasPermission(rolesFirst, "delete") = True
     /\ hasPermission(definitionsFirst, "delete") = False
     /\ hasPermission(setRoleDefinitions(rolesFirst, new).this, "delete") = False

\* C26: the decision and the introspection view agree: in every reachable
\* state and for every permission p, hasPermission(p) is true iff p is a
\* member of what getAllPermissions() returns.
C26_DecisionAgreesWithView ==
  \A p \in Perms :
    /\ hasPermission(This, p) \in {True, False}
    /\ ~getAllPermissions(This).threw
    /\ hasPermission(This, p) = True <=> p \in Range(getAllPermissions(This).value)

\* C27: the resolver's state changes only through its own mutation methods:
\* once the constructor, setPermissions, setRoles, setRoleDefinitions or
\* defineRole has received a list or a mapping from the caller, no change the
\* caller makes to that list or mapping afterwards changes what the resolver
\* answers its queries from.
C27_ArgumentsAreCopied ==
  LET changes(h, a) ==
        IF h[a].kind = "Array" THEN CallerArrayChanges(h, a)
        ELSE CallerObjectChanges(h, a, HeapRoleNames)
  IN /\ \A c \in MutationCalls :
          c.arg # Null =>
            \A h \in changes(c.outcome.heap, c.arg) :
              View(h, c.outcome.this) = View(c.outcome.heap, c.outcome.this)
     /\ \A a \in {configObject.permissions, configObject.roles,
                   configObject.roleDefinitions} \ {Null} :
          \A h \in changes(heap, a) :
            /\ View(h, rbac) = View(heap, rbac)
            /\ View(h, peer) = View(heap, peer)

\* C28: no revoking operation can grant: removePermissions, removeRoles and
\* removeRoleDefinition never turn hasPermission(p) from false to true, and
\* a permission that neither a direct permission nor an assigned role grants
\* is not granted after them either; a permission becomes granted only
\* through the other six mutations.
C28_RevokingNeverGrants ==
  LET revoked ==
        {removePermissions(This, l).this : l \in PermLists}
          \cup {removeRoles(This, l).this : l \in RoleLists}
          \cup {removeRoleDefinition(This, r).this : r \in RoleNames}
  IN \A after \in revoked, p \in Perms :
       /\ hasPermission(This, p) = False => hasPermission(after, p) # True
       /\ ~EffectiveGrant(This, p) => hasPermission(after, p) # True

\* C28 witness: "read" is granted directly and through admin, "delete" is
\* not granted; removing the permission "read", the role admin or admin's
\* definition changes the resolver and leaves "delete" refused.
C28_Witness ==
  /\ permissions = <<"read">>
  /\ roles = <<"admin">>
  /\ roleDefinitions = [admin |-> <<"read">>]
  /\ hasPermission(This, "delete") = False
  /\ hasPermission(removePermissions(This, <<"read">>).this, "delete") = False
  /\ hasPermission(removeRoles(This, <<"admin">>).this, "delete") = False
  /\ hasPermission(removeRoleDefinition(This, "admin").this, "delete") = False

\* C29: setRoleDefinitions(defs) replaces the whole mapping: afterwards the
\* defined roles are exactly those of defs, so a role defined before and
\* absent from defs is undefined.  It never changes the RoleSet (nor the
\* direct permissions): unlike defineRole it assigns no role, so a
\* permission is granted afterwards only if it is direct or defs defines it
\* for a role that was assigned already.
C29_SetRoleDefinitionsReplaces ==
  \A d \in DefinitionObjects :
    LET after == setRoleDefinitions(This, d).this
    IN /\ getRoleDefinitions(after) = d
       /\ \A r \in DOMAIN roleDefinitions \ DOMAIN d :
            r \notin DOMAIN getRoleDefinitions(after)
       /\ getRoles(after) = getRoles(This)
       /\ getPermissions(after) = getPermissions(This)
       /\ \A r \in DOMAIN d \ RoleSet(This) : ~hasRole(after, r)
       /\ \A p \in Perms :
            hasPermission(after, p) = True =>
              \/ p \in PermissionSet(This)
              \/ \E r \in RoleSet(This) \cap DOMAIN d : p \in Range(d[r])

\* C29 witness: admin is assigned and defined as ["read"]; after
\* setRoleDefinitions({ editor: ["delete"] }) admin is undefined and grants
\* nothing, editor is defined but not assigned and "delete" is refused, until
\* addRoles(["editor"]) grants it.
C29_Witness ==
  LET after == setRoleDefinitions(This, [editor |-> <<"delete">>]).this
  IN /\ permissions = <<>>
     /\ roles = <<"admin">>
     /\ roleDefinitions = [admin |-> <<"read">>]
     /\ hasPermission(This, "read") = True
     /\ hasPermission(after, "read") = False
     /\ ~hasRole(after, "editor")
     /\ hasPermission(after, "delete") = False
     /\ hasPermission(addRoles(after, <<"editor">>).this, "delete") = True

\* C30: frame of the set mutations.  setPermissions, addPermissions and
\* removePermissions leave the RoleSet and the RoleDefinitions unchanged;
\* setRoles, addRoles and removeRoles leave the direct PermissionSet and the
\* RoleDefinitions unchanged; in particular removing a role keeps its
\* definition, so that adding the role again restores exactly the same
\* grants: every hasPermission answer is what it was.
C30_SetMutationsFrame ==
  /\ \A l \in PermLists :
       \A after \in {setPermissions(This, l).this, addPermissions(This, l).this,
                     removePermissions(This, l).this} :
         /\ getRoles(after) = getRoles(This)
         /\ getRoleDefinitions(after) = getRoleDefinitions(This)
  /\ \A l \in RoleLists :
       \A after \in {setRoles(This, l).this, addRoles(This, l).this,
                     removeRoles(This, l).this} :
         /\ getPermissions(after) = getPermissions(This)
         /\ getRoleDefinitions(after) = getRoleDefinitions(This)
  /\ \A r \in RoleSet(This) :
       LET again == addRoles(removeRoles(This, <<r>>).this, <<r>>).this
       IN /\ RoleSet(again) = RoleSet(This)
          /\ \A p \in Perms : hasPermission(again, p) = hasPermission(This, p)

====
